---- MODULE Spec2Model ----
(***************************************************************************)
(* Model of netux/PxlsBot:                                                 *)
(*   src/src/events/error.ts       - the gateway error handler (reconnect) *)
(*   src/src/extensions/auditlog.ts - the audit log extension              *)
(***************************************************************************)
EXTENDS Integers, Sequences, FiniteSets, TLC

(***************************************************************************)
(* Bounds of the model.                                                    *)
(***************************************************************************)
\* number of gateway error events of each class handled in one run
MaxFaults == 3
\* number of explicit start/login calls made by the process bootstrap
MaxStarts == 2
\* number of rows the audit table holds at most
MaxRows == 3
\* number of characters that follow the command token in a message
MaxTail == 4
\* number of faults of the storage engine logged by insertAuditLog
MaxInsertFaults == 1

(***************************************************************************)
(* State.                                                                  *)
(***************************************************************************)
VARIABLES
  \* --- events/error.ts -------------------------------------------------
  connState,    \* ConnectionState of the supervised session (spec 4.4)
  timers,       \* number of armed setTimeout callbacks that have not fired
  loginCalls,   \* number of login() calls made by timer callbacks
  hostFaults,   \* number of ENOTFOUND errors handled by execute
  otherFaults,  \* number of errors of any other name handled by execute
  errLogged,    \* number of logger.error calls made by the error handler
  starts,       \* number of explicit start/login calls
  reachable,    \* whether the gateway host can be reached
  loginBy,      \* the caller of the latest login(): none, start or timer
  \* --- extensions/auditlog.ts -----------------------------------------
  table,        \* the rows of table auditlog, in insertion order (id SERIAL)
  commands,     \* ids of the commands registered in client.commands
  insertLogged, \* number of insert faults logged by insertAuditLog
  insertCalls,  \* number of calls of insertAuditLog
  insertQueries,\* number of INSERT queries issued by insertAuditLog
  insertRaised, \* number of faults insertAuditLog has raised to its caller
  pc,           \* position of the invocation of the command's execute
  content,      \* message.content of the invocation
  guild,        \* message.guild.id of the invocation
  queries,      \* the queries the invocation executed
  dbRows,       \* dbResult.rows of the invocation's query
  formattedArr, \* formattedArr when the formatting loop was left
  sent,         \* the messages sent with message.channel.send, in order
  caught,       \* the fault caught by the try/catch of the invocation
  logged        \* number of logger.error calls made by the invocation

supVars == <<connState, timers, loginCalls, hostFaults, otherFaults, errLogged,
             starts, reachable, loginBy>>

auditVars == <<table, commands, insertLogged, insertCalls, insertQueries,
               insertRaised, pc, content, guild, queries,
               dbRows, formattedArr, sent, caught, logged>>

vars == <<supVars, auditVars>>

(***************************************************************************)
(* events/error.ts                                                         *)
(***************************************************************************)
ErrNames == {"ENOTFOUND", "ECONNRESET", "Error"}

ConnStates == {"Disconnected", "Connecting", "Connected", "ReconnectScheduled"}

\* The state the session is in after a fault of the given name (spec 4.4):
\* Connected -> ReconnectScheduled on host-unreachable, Connected ->
\* Disconnected on any other fault; the other states have no fault transition.
StateAfterFault(s, errName) ==
  IF s = "Connected"
    THEN (IF errName = "ENOTFOUND" THEN "ReconnectScheduled" ELSE "Disconnected")
    ELSE s

\* login() of ../index: the session starts connecting (spec 4.4).
login(s) == "Connecting"

TimersArmedBy_Always(errName) == 1

TimersArmedBy_Never(errName) == 0

\* Number of timers armed by one call of execute(err): the setTimeout of
\* line 16 is reached exactly when err.name === 'ENOTFOUND'.
TimersArmedBy(errName) == IF errName = "ENOTFOUND" THEN 1 ELSE 0

\* execute(err): the handler of the gateway client's 'error' event.
ErrorExecute(errName) ==
  /\ IF errName = "ENOTFOUND" THEN hostFaults < MaxFaults ELSE otherFaults < MaxFaults
  /\ hostFaults' = hostFaults + (IF errName = "ENOTFOUND" THEN 1 ELSE 0)
  /\ otherFaults' = otherFaults + (IF errName = "ENOTFOUND" THEN 0 ELSE 1)
  /\ errLogged' = errLogged + 1
  /\ timers' = timers + TimersArmedBy(errName)
  /\ connState' = StateAfterFault(connState, errName)
  /\ UNCHANGED <<loginCalls, starts, reachable, loginBy, auditVars>>

TimerFire_Repeating ==
  /\ timers > 0
  /\ loginCalls <= MaxFaults
  /\ timers' = timers
  /\ loginCalls' = loginCalls + 1
  /\ connState' = login(connState)
  /\ loginBy' = "timer"
  /\ UNCHANGED <<hostFaults, otherFaults, errLogged, starts, reachable, auditVars>>

\* The callback of setTimeout (lines 16-18): one armed timer fires and
\* awaits login().
TimerFire ==
  /\ timers > 0
  /\ timers' = timers - 1
  /\ loginCalls' = loginCalls + 1
  /\ connState' = login(connState)
  /\ loginBy' = "timer"
  /\ UNCHANGED <<hostFaults, otherFaults, errLogged, starts, reachable, auditVars>>

\* Disconnected -> Connecting: the explicit start/login call (spec 4.4).
Start ==
  /\ connState = "Disconnected"
  /\ starts < MaxStarts
  /\ starts' = starts + 1
  /\ connState' = login(connState)
  /\ loginBy' = "start"
  /\ UNCHANGED <<timers, loginCalls, hostFaults, otherFaults, errLogged, reachable,
                 auditVars>>

\* Connecting -> Connected: the handshake signal of the gateway client.
Handshake ==
  /\ connState = "Connecting"
  /\ connState' = "Connected"
  /\ UNCHANGED <<timers, loginCalls, hostFaults, otherFaults, errLogged, starts,
                 reachable, loginBy, auditVars>>

\* A login attempt fails because the host is unreachable.  When the attempt
\* was made by a timer callback, `await login()` rejects inside the callback
\* of lines 16-18, which neither catches the rejection nor arms another
\* timer; a further timer is armed only if the gateway client reports a new
\* ENOTFOUND error to execute.
LoginFails ==
  /\ connState = "Connecting"
  /\ ~reachable
  /\ connState' = "Disconnected"
  /\ UNCHANGED <<timers, loginCalls, hostFaults, otherFaults, errLogged, starts,
                 reachable, loginBy, auditVars>>

\* the gateway host stops or starts being reachable
GatewayDown ==
  /\ reachable
  /\ reachable' = FALSE
  /\ UNCHANGED <<connState, timers, loginCalls, hostFaults, otherFaults, errLogged,
                 starts, loginBy, auditVars>>

GatewayUp ==
  /\ ~reachable
  /\ reachable' = TRUE
  /\ UNCHANGED <<connState, timers, loginCalls, hostFaults, otherFaults, errLogged,
                 starts, loginBy, auditVars>>

(***************************************************************************)
(* extensions/auditlog.ts: data                                            *)
(***************************************************************************)
Guilds == {"g1", "g2"}

UserIds == {"u1"}

\* The ids of the commands registered by the loaded extensions.  "longid"
\* and "hugeid" stand for ids of 899 and 1924 characters (an id is any
\* string, command_id is TEXT).
Registered == {"auditlog", "longid", "hugeid"}

\* Command ids an audit row may store: "removed" is the id of a command of
\* an extension that is no longer loaded.
CommandIds == Registered \cup {"removed"}

\* The group the command is invoked in; rows belong to it or to another one.
CallGuilds == {"g1"}

\* The characters of a message after its command token: a digit, a letter
\* that may start an exponent, and the separator of split(' ').
Chars == {"1", "e", " "}

\* String.prototype.length of the strings of the model.
StrLen(s) ==
  CASE s = "auditlog" -> 8
    [] s = "longid" -> 899
    [] s = "hugeid" -> 1924
    [] s = "removed" -> 7
    [] s = "u1" -> 18          \* a snowflake user id
    [] s = "tag" -> 9          \* user.tag, name#0001
    [] s = "datetime" -> 19    \* logger.getDateTime(timestamp, true)

\* type DatabaseAuditLog (message and timestamp are not needed by the model)
DatabaseAuditLog(id, g, u, cid) ==
  [id |-> id, guild_id |-> g, user_id |-> u, command_id |-> cid]

\* message.content: the command token "C" followed by at most MaxTail
\* characters, the first of which is a space.
Contents ==
  {<<"C">>} \cup
  {<<"C", " ">> \o u : u \in UNION {[1..k -> Chars] : k \in 0..(MaxTail - 1)}}

(***************************************************************************)
(* JavaScript conversions used by execute                                  *)
(***************************************************************************)
\* String.prototype.split(sep) for a one-character separator
RECURSIVE Split(_, _)
Split(s, sep) ==
  IF \E i \in 1..Len(s) : s[i] = sep
    THEN LET i == CHOOSE k \in 1..Len(s) :
                     s[k] = sep /\ \A j \in 1..(k - 1) : s[j] # sep
         IN  <<SubSeq(s, 1, i - 1)>> \o Split(SubSeq(s, i + 1, Len(s)), sep)
    ELSE <<s>>

IsDigit(c) == c \in {"0", "1", "2", "3", "4", "5", "6", "7", "8", "9"}

DigitVal(c) ==
  CASE c = "0" -> 0 [] c = "1" -> 1 [] c = "2" -> 2 [] c = "3" -> 3 [] c = "4" -> 4
    [] c = "5" -> 5 [] c = "6" -> 6 [] c = "7" -> 7 [] c = "8" -> 8 [] c = "9" -> 9

AllDigits(ds) == ds # <<>> /\ \A i \in 1..Len(ds) : IsDigit(ds[i])

RECURSIVE DigitsVal(_)
DigitsVal(ds) ==
  IF ds = <<>> THEN 0
  ELSE 10 * DigitsVal(SubSeq(ds, 1, Len(ds) - 1)) + DigitVal(ds[Len(ds)])

\* A JavaScript number: NaN, or mant * 10^exp (kept as a pair so that large
\* exponents do not leave the integers of the model).
NaN == [nan |-> TRUE, mant |-> 0, exp |-> 0]

Num(m, e) == [nan |-> FALSE, mant |-> m, exp |-> e]

RECURSIVE Norm(_)
Norm(n) ==
  IF n.nan THEN n
  ELSE IF n.mant = 0 THEN Num(0, 0)
  ELSE IF n.mant % 10 = 0 THEN Norm(Num(n.mant \div 10, n.exp + 1))
  ELSE n

\* a === b for two numbers (NaN equals nothing)
NumEq(a, b) == ~a.nan /\ ~b.nan /\ Norm(a) = Norm(b)

\* Number(tok) for a token of digits and the letter e (StringToNumber): the
\* empty string is 0, digits with an optional exponent part are a decimal
\* literal, everything else is NaN.
Number(tok) ==
  IF tok = <<>> THEN Num(0, 0)
  ELSE IF AllDigits(tok) THEN Num(DigitsVal(tok), 0)
  ELSE IF \E i \in 1..Len(tok) :
            /\ tok[i] = "e"
            /\ AllDigits(SubSeq(tok, 1, i - 1))
            /\ AllDigits(SubSeq(tok, i + 1, Len(tok)))
    THEN LET i == CHOOSE k \in 1..Len(tok) : tok[k] = "e"
         IN  Num(DigitsVal(SubSeq(tok, 1, i - 1)),
                 DigitsVal(SubSeq(tok, i + 1, Len(tok))))
  ELSE NaN

RECURSIVE DigitPrefix(_)
DigitPrefix(tok) ==
  IF tok # <<>> /\ IsDigit(Head(tok))
    THEN <<Head(tok)>> \o DigitPrefix(Tail(tok))
    ELSE <<>>

\* parseInt(tok): the value of the longest prefix of digits, NaN if there
\* is none.
ParseInt(tok) ==
  IF DigitPrefix(tok) = <<>> THEN NaN ELSE Num(DigitsVal(DigitPrefix(tok)), 0)

\* number of characters of `${n}` for an integer n >= 0
RECURSIVE DigitsLen(_)
DigitsLen(n) == IF n < 10 THEN 1 ELSE 1 + DigitsLen(n \div 10)

(***************************************************************************)
(* extensions/auditlog.ts: storage                                         *)
(***************************************************************************)
\* all orders in which the rows of a sequence can be returned
Orderings(rows) ==
  {[i \in 1..Len(rows) |-> rows[p[i]]] :
     p \in {q \in [1..Len(rows) -> 1..Len(rows)] :
              \A i, j \in 1..Len(rows) : q[i] = q[j] => i = j}}

Matches(t, g) == SelectSeq(t, LAMBDA r : r.guild_id = g)

\* SELECT * FROM auditlog WHERE guild_id = $1: the query has no ORDER BY, so
\* the engine may return the matching rows in any order.
ListQuery(t, g) == Orderings(Matches(t, g))

DetailQuery_AnyGuild(t, g, id) ==
  SelectSeq(t, LAMBDA r : NumEq(Num(r.id, 0), id))

\* SELECT * FROM auditlog WHERE guild_id = $1 AND id = $2 with a numeric $2
DetailQuery(t, g, id) ==
  SelectSeq(t, LAMBDA r : r.guild_id = g /\ NumEq(Num(r.id, 0), id))

InsertEffect_Retry(fault) ==
  [queries |-> IF fault THEN 2 ELSE 1, logged |-> IF fault THEN 1 ELSE 0, raised |-> 0]

\* What one call of insertAuditLog does besides writing the row: the single
\* connection.query of lines 29-40, the catch block of lines 41-44 that logs
\* the fault, and no throw out of the function.
InsertEffect(fault) ==
  [queries |-> 1, logged |-> IF fault THEN 1 ELSE 0, raised |-> 0]

\* insertAuditLog: one INSERT; a fault of the query is logged and swallowed.
InsertAuditLog(g, u, cid, fault) ==
  /\ insertCalls' = insertCalls + 1
  /\ insertQueries' = insertQueries + InsertEffect(fault).queries
  /\ insertRaised' = insertRaised + InsertEffect(fault).raised
  /\ IF fault
       THEN /\ insertLogged < MaxInsertFaults
            /\ insertLogged' = insertLogged + InsertEffect(fault).logged
            /\ table' = table
       ELSE /\ Len(table) < MaxRows
            /\ table' = Append(table, DatabaseAuditLog(Len(table) + 1, g, u, cid))
            /\ insertLogged' = insertLogged
  /\ UNCHANGED <<commands, pc, content, guild, queries, dbRows, formattedArr,
                 sent, caught, logged, supVars>>

(***************************************************************************)
(* extensions/auditlog.ts: execute                                         *)
(***************************************************************************)
TemplateLen == 78

Capacity == 2048

\* client.commands.find(cmd => cmd.id === id): the command, or undefined
Find(cmds, cid) ==
  IF cid \in cmds THEN [found |-> TRUE, id |-> cid] ELSE [found |-> FALSE, id |-> ""]

\* const commandID = command.id ?? auditLog.command_id: reading .id of
\* undefined throws a TypeError
ResolveCommandID(cmds, cid) ==
  IF Find(cmds, cid).found
    THEN [threw |-> FALSE, value |-> Find(cmds, cid).id]
    ELSE [threw |-> TRUE, value |-> ""]

\* the template literal of lines 75-80, trimmed: a block of text, here its
\* entry id, its label, its length and the number of '\n' appended to it
Format(row, commandID) ==
  [id |-> row.id, commandID |-> commandID,
   len |-> TemplateLen + DigitsLen(row.id) + StrLen(commandID)
           + StrLen("datetime") + StrLen("tag") + StrLen(row.user_id),
   nl |-> 0]

\* formattedStr + '\n'
WithNewline(formattedStr) == [formattedStr EXCEPT !.nl = @ + 1]

\* the loop of lines 70-81 from row i on; badUser is the index of the row
\* whose client.users.fetch rejects (0: none).
RECURSIVE FormatFrom(_, _, _, _, _)
FormatFrom(rows, cmds, badUser, i, acc) ==
  IF i > Len(rows) THEN [err |-> "none", arr |-> acc]
  ELSE IF i = badUser THEN [err |-> "fetch", arr |-> acc]
  ELSE IF ResolveCommandID(cmds, rows[i].command_id).threw
    THEN [err |-> "TypeError", arr |-> acc]
  ELSE FormatFrom(rows, cmds, badUser, i + 1,
         Append(acc, Format(rows[i], ResolveCommandID(cmds, rows[i].command_id).value)))

\* lines 83-84
PackInit == [messageBuffer |-> << <<>> >>, buffer |-> 0]

OpenPage_NoReset(st, formattedStr) ==
  IF st.buffer + formattedStr.len > Capacity
    THEN [messageBuffer |-> Append(st.messageBuffer, <<>>), buffer |-> st.buffer]
    ELSE st

\* lines 87-90: open a new page when the block does not fit the counter
OpenPage(st, formattedStr) ==
  IF st.buffer + formattedStr.len > Capacity
    THEN [messageBuffer |-> Append(st.messageBuffer, <<>>), buffer |-> 0]
    ELSE st

PackStep_DropOnOverflow(st, formattedStr) ==
  IF st.buffer + formattedStr.len > Capacity
    THEN OpenPage(st, formattedStr)
    ELSE [messageBuffer |->
            [st.messageBuffer EXCEPT ![Len(st.messageBuffer)] =
               Append(@, WithNewline(formattedStr))],
          buffer |-> st.buffer + formattedStr.len]

\* lines 86-92: one iteration of the packing loop
PackStep(st, formattedStr) ==
  LET o == OpenPage(st, formattedStr)
  IN  [messageBuffer |->
         [o.messageBuffer EXCEPT ![Len(o.messageBuffer)] =
            Append(@, WithNewline(formattedStr))],
       buffer |-> o.buffer + formattedStr.len]

\* the state of the packing loop after i iterations
RECURSIVE PackUpTo(_, _)
PackUpTo(arr, i) ==
  IF i = 0 THEN PackInit ELSE PackStep(PackUpTo(arr, i - 1), arr[i])

\* lines 83-93: messageBuffer after the loop
Pack(arr) == PackUpTo(arr, Len(arr)).messageBuffer

\* a message sent with message.channel.send
Msg(kind, id, commandID, page) ==
  [kind |-> kind, id |-> id, commandID |-> commandID, page |-> page]

\* lines 94-97: one embed per element of messageBuffer
SendPages(messageBuffer) ==
  [k \in 1..Len(messageBuffer) |-> Msg("page", NaN, "", messageBuffer[k])]

\* what one invocation has done when it returns
Outcome(q, rows, arr, msgs, err) ==
  [queries |-> q, rows |-> rows, formattedArr |-> arr, sent |-> msgs, caught |-> err]

NoRows_Never(rows) == FALSE

\* line 64 and line 123: dbResult.rowCount < 1
NoRows(rows) == Len(rows) < 1

ListMode_Streaming(g, cmds, dbFault, rows, badUser) ==
  LET q == <<[kind |-> "list", guild_id |-> g, id |-> NaN]>>
      f == FormatFrom(rows, cmds, badUser, 1, <<>>)
  IN  IF dbFault
        THEN Outcome(q, <<>>, <<>>, <<Msg("listFailure", NaN, "", <<>>)>>, "storage")
      ELSE IF NoRows(rows)
        THEN Outcome(q, rows, <<>>, <<Msg("noEntries", NaN, "", <<>>)>>, "none")
      ELSE IF f.err # "none"
        THEN Outcome(q, rows, f.arr,
               SendPages(Pack(f.arr)) \o <<Msg("listFailure", NaN, "", <<>>)>>, f.err)
      ELSE Outcome(q, rows, f.arr, SendPages(Pack(f.arr)), "none")

\* lines 52-102: list mode, given the outcome of the query (a fault, or the
\* rows in the order the engine returned them)
ListMode(g, cmds, dbFault, rows, badUser) ==
  LET q == <<[kind |-> "list", guild_id |-> g, id |-> NaN]>>
      f == FormatFrom(rows, cmds, badUser, 1, <<>>)
  IN  IF dbFault
        THEN Outcome(q, <<>>, <<>>, <<Msg("listFailure", NaN, "", <<>>)>>, "storage")
      ELSE IF NoRows(rows)
        THEN Outcome(q, rows, <<>>, <<Msg("noEntries", NaN, "", <<>>)>>, "none")
      ELSE IF f.err # "none"
        THEN Outcome(q, rows, f.arr, <<Msg("listFailure", NaN, "", <<>>)>>, f.err)
      ELSE Outcome(q, rows, f.arr, SendPages(Pack(f.arr)), "none")

\* lines 109-141: detail mode for the parsed id; a query whose id parameter
\* is NaN is rejected by the engine (NaN is no integer).
DetailMode(t, g, cmds, id, dbFault, badUser) ==
  LET q == <<[kind |-> "detail", guild_id |-> g, id |-> id]>>
      rows == IF id.nan THEN <<>> ELSE DetailQuery(t, g, id)
  IN  IF dbFault \/ id.nan
        THEN Outcome(q, <<>>, <<>>, <<Msg("searchFailure", id, "", <<>>)>>, "storage")
      ELSE IF NoRows(rows)
        THEN Outcome(q, rows, <<>>, <<Msg("notFound", id, "", <<>>)>>, "none")
      ELSE IF badUser = 1
        THEN Outcome(q, rows, <<>>, <<Msg("searchFailure", id, "", <<>>)>>, "fetch")
      ELSE IF ResolveCommandID(cmds, rows[1].command_id).threw
        THEN Outcome(q, rows, <<>>, <<Msg("searchFailure", id, "", <<>>)>>, "TypeError")
      ELSE Outcome(q, rows, <<>>,
             <<Msg("detail", id, ResolveCommandID(cmds, rows[1].command_id).value, <<>>)>>,
             "none")

Logged_Never(o) == 0

\* logger.error calls of the invocation: line 99, or lines 138-139
Logged(o) ==
  IF o.caught = "none" THEN 0
  ELSE IF o.queries[1].kind = "list" THEN 1 ELSE 2

\* line 48
Args(c) == Split(c, " ")

\* lines 105-108
UsageError == Outcome(<<>>, <<>>, <<>>, <<Msg("usage", NaN, "", <<>>)>>, "none")

\* the effect of one invocation on the state
Finish(c, g, r) ==
  /\ pc' = "done"
  /\ content' = c
  /\ guild' = g
  /\ \E o \in {r} :
       /\ queries' = o.queries
       /\ dbRows' = o.rows
       /\ formattedArr' = o.formattedArr
       /\ sent' = o.sent
       /\ caught' = o.caught
       /\ logged' = Logged(o)
  /\ UNCHANGED <<table, commands, insertLogged, insertCalls, insertQueries,
                 insertRaised, supVars>>

\* execute({ client, message }) of the auditlog command
Execute(c, g) ==
  /\ pc = "ready"
  /\ IF Len(Args(c)) < 2
       THEN \E dbFault \in BOOLEAN : \E rows \in ListQuery(table, g) :
              \E badUser \in 0..Len(rows) :
                Finish(c, g, ListMode(g, commands, dbFault, rows, badUser))
     ELSE IF Number(Args(c)[2]).nan
       THEN Finish(c, g, UsageError)
     ELSE \E dbFault \in BOOLEAN : \E badUser \in 0..1 :
            Finish(c, g, DetailMode(table, g, commands, ParseInt(Args(c)[2]),
                                    dbFault, badUser))

\* setup has registered the auditlog command and the other extensions
\* theirs; no message has been handled.
AuditReady ==
  /\ table = <<>>
  /\ commands = Registered
  /\ insertLogged = 0
  /\ insertCalls = 0
  /\ insertQueries = 0
  /\ insertRaised = 0
  /\ pc = "ready"
  /\ content = <<>>
  /\ guild = "g1"
  /\ queries = <<>>
  /\ dbRows = <<>>
  /\ formattedArr = <<>>
  /\ sent = <<>>
  /\ caught = "none"
  /\ logged = 0

SupIdle ==
  /\ connState = "Connected"
  /\ timers = 0
  /\ loginCalls = 0
  /\ hostFaults = 0
  /\ otherFaults = 0
  /\ errLogged = 0
  /\ starts = 1
  /\ reachable = TRUE
  /\ loginBy = "start"

\* The command is invoked on the table the earlier commands have written;
\* a row inserted after an invocation changes nothing of what it has sent.
AuditNext ==
  \/ /\ pc = "ready"
     /\ \E g \in Guilds, u \in UserIds, cid \in CommandIds :
          InsertAuditLog(g, u, cid, FALSE)
  \/ \E c \in Contents, g \in CallGuilds : Execute(c, g)

AuditInit == AuditReady /\ SupIdle

\* The write path alone: every command that has run calls insertAuditLog,
\* and the storage engine may fail any of the inserts.
WriteNext ==
  \E g \in Guilds, u \in UserIds, cid \in CommandIds, fault \in BOOLEAN :
    InsertAuditLog(g, u, cid, fault)

WriteSpec == AuditInit /\ [][WriteNext]_vars

AuditSpec == AuditInit /\ [][AuditNext]_vars

SupInit ==
  /\ AuditReady
  /\ connState = "Disconnected"
  /\ timers = 0
  /\ loginCalls = 0
  /\ hostFaults = 0
  /\ otherFaults = 0
  /\ errLogged = 0
  /\ starts = 0
  /\ reachable = TRUE
  /\ loginBy = "none"

SupNext ==
  \/ \E e \in ErrNames : ErrorExecute(e)
  \/ TimerFire
  \/ Start
  \/ Handshake

SupervisorSpec == SupInit /\ [][SupNext]_vars

\* The runtime's timer queue runs every armed callback once its delay has
\* elapsed, as long as the process is not torn down.
SupervisorFairSpec == SupervisorSpec /\ WF_vars(TimerFire)

\* The supervisor with a gateway that may be unreachable: a host-unreachable
\* fault is reported while the host is unreachable, the handshake needs the
\* host, and a login attempt made while it is unreachable fails.  The
\* gateway client reports errors once it has been started.
ReconnectNext ==
  \/ starts >= 1 /\ ~reachable /\ ErrorExecute("ENOTFOUND")
  \/ starts >= 1 /\ \E e \in ErrNames \ {"ENOTFOUND"} : ErrorExecute(e)
  \/ TimerFire
  \/ Start
  \/ reachable /\ Handshake
  \/ LoginFails
  \/ GatewayDown
  \/ GatewayUp

ReconnectSpec == SupInit /\ [][ReconnectNext]_vars

\* Armed timers fire, and a login attempt against a reachable host completes
\* its handshake.
ReconnectFairSpec ==
  ReconnectSpec /\ WF_vars(TimerFire) /\ WF_vars(reachable /\ Handshake)

(***************************************************************************)
(* Claims about events/error.ts                                            *)
(***************************************************************************)

\* C1: at most one reconnect timer is pending at any time; an ENOTFOUND
\* fault handled while an armed timer has not fired arms no second timer.
C1_AtMostOneTimerPending == timers <= 1

\* C2: a fault whose name is not ENOTFOUND is logged, arms no timer and
\* causes no login call, in any state and after any earlier faults; hence
\* every timer and every login call is accounted for by an ENOTFOUND fault.
C2_OtherFaultNeverReconnects ==
  /\ [][otherFaults' > otherFaults =>
          /\ timers' = timers
          /\ loginCalls' = loginCalls
          /\ errLogged' = errLogged + 1]_vars
  /\ [](timers + loginCalls = hostFaults)

\* a fault of another class has been handled while a reconnect was pending
C2_Witness == otherFaults >= 1 /\ hostFaults >= 1 /\ timers >= 1

\* C3: every ENOTFOUND fault is eventually followed by a login call made by
\* the timer it armed (ReconnectScheduled leads to Connecting), and login is
\* called only by a timer that fires.
C3_HostFaultLeadsToLogin ==
  /\ \A n \in 1..MaxFaults : (hostFaults >= n) ~> (loginCalls >= n)
  /\ (connState = "ReconnectScheduled") ~> (connState = "Connecting")
  /\ [][loginCalls' > loginCalls =>
          timers > 0 /\ timers' = timers - 1 /\ connState' = "Connecting"]_vars
  /\ [](loginCalls <= hostFaults)

\* the timer armed by a fault received while Connected has fired and called login
C3_Witness ==
  /\ hostFaults = 1 /\ loginCalls = 1 /\ timers = 0 /\ connState = "Connecting"

(***************************************************************************)
(* Claims about extensions/auditlog.ts                                     *)
(***************************************************************************)
RECURSIVE SumLen(_)
\* length of a page as rendered: its blocks with their separators
SumLen(page) ==
  IF page = <<>> THEN 0
  ELSE page[1].len + page[1].nl + SumLen(Tail(page))

RECURSIVE Flatten(_)
\* the blocks of a sequence of page messages, page by page
Flatten(msgs) ==
  IF msgs = <<>> THEN <<>> ELSE msgs[1].page \o Flatten(Tail(msgs))

\* a block without the separators appended to it
Bare(block) == [block EXCEPT !.nl = 0]

\* the invocation has returned and took the list branch / the argument branch
ListDone == pc = "done" /\ Len(Args(content)) < 2

ArgDone == pc = "done" /\ Len(Args(content)) >= 2

\* the invocation has sent pages
PagesSent == ListDone /\ sent # <<>> /\ sent[1].kind = "page"

\* C4: no emitted page has a rendered length (blocks with their trailing
\* separators) above 2048, unless it holds exactly one block whose own
\* length exceeds 2048.
C4_PageWithinCapacity ==
  \A k \in 1..Len(sent) :
    sent[k].kind = "page" =>
      \/ SumLen(sent[k].page) <= 2048
      \/ Len(sent[k].page) = 1 /\ sent[k].page[1].len > 2048

\* C5: the blocks of the emitted pages, read page by page and block by block,
\* are exactly the formatted blocks of the rows, each whole and once, and
\* every message of the listing is one page.
C5_PagesReproduceBlocks ==
  PagesSent =>
    /\ \A k \in 1..Len(sent) : sent[k].kind = "page"
    /\ Len(formattedArr) = Len(dbRows)
    /\ Len(Flatten(sent)) = Len(formattedArr)
    /\ \A i \in 1..Len(formattedArr) :
         /\ Bare(Flatten(sent)[i]) = formattedArr[i]
         /\ Flatten(sent)[i].nl = 1
         /\ formattedArr[i].id = dbRows[i].id

\* a listing of three blocks on two pages, one of them holding two blocks
C5_Witness ==
  /\ PagesSent
  /\ Len(formattedArr) = 3
  /\ Len(sent) = 2
  /\ \E k \in 1..Len(sent) : Len(sent[k].page) = 2

\* C6: every page that is sent holds at least one block, also when a block
\* alone exceeds 2048 and when that block is the first one.
C6_NoEmptyPage ==
  \A k \in 1..Len(sent) : sent[k].kind = "page" => Len(sent[k].page) >= 1

\* C7: a row whose command id matches no registered command is shown with the
\* stored id as its label, in list mode and in detail mode, and raises no
\* fault and no failure notice.
C7_UnregisteredFallsBack ==
  (/\ pc = "done"
   /\ caught \notin {"storage", "fetch"}
   /\ \E i \in 1..Len(dbRows) : dbRows[i].command_id \notin commands)
  =>
    /\ caught = "none"
    /\ \A k \in 1..Len(sent) : sent[k].kind \in {"page", "detail"}
    /\ ListDone =>
         /\ Len(formattedArr) = Len(dbRows)
         /\ \A i \in 1..Len(dbRows) : formattedArr[i].commandID = dbRows[i].command_id
    /\ ArgDone =>
         sent = <<Msg("detail", queries[1].id, dbRows[1].command_id, <<>>)>>

\* C8: the entry blocks are emitted in ascending entry-id order across all
\* pages, whatever order the storage engine returns the rows in.
C8_AscendingIdOrder ==
  PagesSent =>
    \A i, j \in 1..Len(Flatten(sent)) :
      i < j => Flatten(sent)[i].id < Flatten(sent)[j].id

\* a decimal literal: digits, optionally followed by e and digits
IsDecimalLiteral(tok) ==
  \/ AllDigits(tok)
  \/ \E i \in 1..Len(tok) :
       /\ tok[i] = "e"
       /\ AllDigits(SubSeq(tok, 1, i - 1))
       /\ AllDigits(SubSeq(tok, i + 1, Len(tok)))

\* the value of a decimal literal
LiteralValue(tok) ==
  IF AllDigits(tok) THEN Num(DigitsVal(tok), 0)
  ELSE LET i == CHOOSE k \in 1..Len(tok) : tok[k] = "e"
       IN  Num(DigitsVal(SubSeq(tok, 1, i - 1)), DigitsVal(SubSeq(tok, i + 1, Len(tok))))

\* C9: an argument that is not a number (the empty token and partly numeric
\* tokens included) gives exactly one usage-error message and no query; a
\* detail query is executed only with the numeric value of the argument.
C9_NonNumericIsUsageError ==
  ArgDone =>
    /\ ~IsDecimalLiteral(Args(content)[2]) =>
         sent = <<Msg("usage", NaN, "", <<>>)>> /\ queries = <<>>
    /\ \A k \in 1..Len(queries) :
         /\ queries[k].kind = "detail"
         /\ IsDecimalLiteral(Args(content)[2])
         /\ NumEq(queries[k].id, LiteralValue(Args(content)[2]))

\* C10: a list query that returns zero rows gives exactly one message, the
\* 'no entries' notice, and no page.
C10_NoEntriesNotice ==
  (ListDone /\ caught = "none" /\ dbRows = <<>>) =>
    sent = <<Msg("noEntries", NaN, "", <<>>)>>

\* the group has no rows while the table holds rows of another group
C10_Witness ==
  /\ ListDone /\ caught = "none" /\ dbRows = <<>> /\ table # <<>>
  /\ sent = <<Msg("noEntries", NaN, "", <<>>)>>

C12_InsertIsBestEffort ==
  /\ [](/\ insertQueries = insertCalls
        /\ insertRaised = 0
        /\ Len(table) + insertLogged = insertCalls
        /\ sent = <<>>)
  /\ [][insertCalls' # insertCalls =>
          /\ insertCalls' = insertCalls + 1
          /\ insertQueries' = insertQueries + 1
          /\ (table' = table) = (insertLogged' = insertLogged + 1)
          /\ pc' = pc]_vars

\* an insert has failed between two inserts that succeeded
C12_Witness == insertLogged = 1 /\ Len(table) = 2 /\ insertCalls = 3

\* C13: when the list query or the detail query raises a fault, the command
\* logs it, sends exactly one failure notice and neither a page nor a detail
\* output, and returns normally.
C13_ReadFaultIsNotice ==
  (pc = "done" /\ caught = "storage") =>
    /\ Len(queries) = 1
    /\ dbRows = <<>>
    /\ formattedArr = <<>>
    /\ logged >= 1
    /\ ListDone => sent = <<Msg("listFailure", NaN, "", <<>>)>> /\ logged = 1
    /\ ArgDone => sent = <<Msg("searchFailure", queries[1].id, "", <<>>)>> /\ logged = 2

\* the list query has failed on a group that has entries
C13_Witness ==
  /\ ListDone /\ caught = "storage"
  /\ \E i \in 1..Len(table) : table[i].guild_id = guild
  /\ sent = <<Msg("listFailure", NaN, "", <<>>)>>

\* a page of whole blocks that the capacity admits: the lengths of its blocks
\* sum to at most 2048, or it is a single block longer than that
RECURSIVE SumBare(_)
SumBare(blocks) ==
  IF blocks = <<>> THEN 0 ELSE blocks[1].len + SumBare(Tail(blocks))

Admissible(blocks) ==
  /\ blocks # <<>>
  /\ \/ SumBare(blocks) <= 2048
     \/ Len(blocks) = 1 /\ blocks[1].len > 2048

\* the least number of admissible pages the blocks i.. of arr partition into
RECURSIVE MinPagesFrom(_, _)
MinPagesFrom(arr, i) ==
  IF i > Len(arr) THEN 0
  ELSE LET ends == {j \in i..Len(arr) : Admissible(SubSeq(arr, i, j))}
           costs == {1 + MinPagesFrom(arr, j + 1) : j \in ends}
       IN  CHOOSE c \in costs : \A d \in costs : c <= d

\* C14: the number of pages the packing loop produces is the minimum over all
\* order-preserving partitions of the blocks into non-empty admissible pages.
C14_FewestPages ==
  PagesSent => Len(sent) = MinPagesFrom(formattedArr, 1)

\* C17: after each block is processed the running counter equals the sum of
\* the lengths (separators not counted) of the blocks of the last page, and
\* every page holding two or more blocks sums to at most 2048.
C17_CounterIsLastPageSum ==
  (ListDone /\ caught = "none") =>
    \A i \in 0..Len(formattedArr) :
      LET st == PackUpTo(formattedArr, i)
      IN  /\ st.buffer = SumBare(st.messageBuffer[Len(st.messageBuffer)])
          /\ \A k \in 1..Len(st.messageBuffer) :
               Len(st.messageBuffer[k]) >= 2 => SumBare(st.messageBuffer[k]) <= 2048

\* the loop has filled a page with two blocks and opened a further one
C17_Witness ==
  /\ PagesSent
  /\ Len(formattedArr) = 3
  /\ Len(sent) = 2
  /\ Len(sent[1].page) = 2
  /\ PackUpTo(formattedArr, 2).buffer = 2048
  /\ PackUpTo(formattedArr, 3).buffer = formattedArr[3].len

\* C18: when resolving the user or the command label fails for a row, no page
\* has been sent: the only message is one failure notice; pages are sent only
\* once every row has been formatted.
C18_FormattingFaultSendsNoPage ==
  /\ (ListDone /\ caught \in {"fetch", "TypeError"}) =>
       /\ sent = <<Msg("listFailure", NaN, "", <<>>)>>
       /\ logged = 1
       /\ Len(formattedArr) < Len(dbRows)
  /\ PagesSent => Len(formattedArr) = Len(dbRows) /\ caught = "none"

\* the fault is raised for the third row, after two rows have been formatted
C18_Witness ==
  /\ ListDone /\ caught = "fetch"
  /\ Len(formattedArr) = 2 /\ Len(dbRows) = 3
  /\ sent = <<Msg("listFailure", NaN, "", <<>>)>>

\* C15: when the login attempt made by the reconnect timer fails because the
\* gateway is still unreachable, a further reconnect attempt is scheduled;
\* hence, once the gateway is reachable for good, a scheduled reconnect
\* eventually leads back to Connected.
C15_FailedLoginIsRetried ==
  /\ [][(connState = "Connecting" /\ loginBy = "timer" /\ connState' = "Disconnected")
          => timers' >= 1]_vars
  /\ (<>[]reachable) =>
       ((connState = "ReconnectScheduled") ~> (connState = "Connected"))

\* C16: the reconnect timer is one-shot and never cancelled: a timer goes
\* away only by firing, a firing makes exactly one login call, login is
\* called only by a firing, and the login calls never exceed the ENOTFOUND
\* faults received.
C16_OneShotTimer ==
  /\ [][(timers' < timers \/ loginCalls' # loginCalls) =>
          (timers' = timers - 1 /\ loginCalls' = loginCalls + 1)]_vars
  /\ [](loginCalls <= hostFaults /\ timers >= 0)

\* two timers were armed and each has fired once
C16_Witness == hostFaults = 2 /\ loginCalls = 2 /\ timers = 0

====
